---- MODULE Spec2Model ----
(***************************************************************************)
(* A model of the minimax_game crate: the bitboard rules engine of the     *)
(* 3x3 grid game (src/src/tic_tac_toe.rs) and the game driver              *)
(* (src/src/game.rs).  Positions are u16 bit masks, modelled as naturals   *)
(* below 2^16 with the bitwise operators computed bit by bit.              *)
(***************************************************************************)
EXTENDS Integers, Sequences, FiniteSets, TLC

VARIABLES
    state,      \* GamePlayer.state : BoardState
    strategy,   \* GamePlayer.strategy : which Strategy implementation drives the game
    pc,         \* position of the caller: "engine", "probe", "answered", "loop", "returned"
    result,     \* the GameResult last returned to the caller
    printed,    \* how many boards play has printed, one per iteration of its loop
    plies,      \* the moves applied so far, in order
    call,       \* the last call answered: its name, the receiver before it, its argument, what it returned
    twin,       \* a second BoardState, given the same moves as state
    dist        \* a Distribution

vars == <<state, strategy, pc, result, printed, plies, call, twin, dist>>

\* play prints at most this many boards without a move before the model stops following it
MaxPrinted == 3

----------------------------------------------------------------------------
(* u16 arithmetic *)

\* type Position = u16.  Neither & nor | carries, so a result never leaves
\* the 16 bits of its operands.
RECURSIVE BitAnd(_, _)
BitAnd(a, b) ==
    IF a = 0 \/ b = 0 THEN 0
    ELSE ((a % 2) * (b % 2)) + 2 * BitAnd(a \div 2, b \div 2)

RECURSIVE BitOr(_, _)
BitOr(a, b) ==
    IF a = 0 THEN b
    ELSE IF b = 0 THEN a
    ELSE (IF (a % 2) + (b % 2) > 0 THEN 1 ELSE 0) + 2 * BitOr(a \div 2, b \div 2)

RECURSIVE Pow2(_)
Pow2(k) == IF k = 0 THEN 1 ELSE 2 * Pow2(k - 1)

----------------------------------------------------------------------------
(* game.rs: Player, GameResult *)

Players == {"One", "Two"}

other_player(p) == IF p = "One" THEN "Two" ELSE "One"

\* flip_player that always assigns Player::One
flip_player_to_one(p) == "One"

\* flip_player assigns the other variant in place
flip_player(p) == IF p = "One" THEN "Two" ELSE "One"

Win(p) == [tag |-> "Win", player |-> p]
Draw == [tag |-> "Draw", player |-> "None"]
Undetermined == [tag |-> "Undetermined", player |-> "None"]

GameResults == {Win(p) : p \in Players} \cup {Draw, Undetermined}

is_determined(r) == r # Undetermined

----------------------------------------------------------------------------
(* tic_tac_toe.rs: constants *)

Pieces == {"X", "O", "Empty"}

\* WINNING_POSITIONS with the middle row typed one bit to the left
WINNING_POSITIONS_shifted == <<7, 112, 448, 73, 146, 292, 273, 84>>

WINNING_POSITIONS == <<7, 56, 448, 73, 146, 292, 273, 84>>

\* ALL_MOVES with its last two entries exchanged
ALL_MOVES_reordered == <<1, 2, 4, 8, 16, 32, 64, 256, 128>>

\* Move(p): the wrapped Position of each of the nine moves
ALL_MOVES == <<1, 2, 4, 8, 16, 32, 64, 128, 256>>

DRAW == 511

----------------------------------------------------------------------------
(* tic_tac_toe.rs: BoardState *)

\* new() with Player::Two to move
new_player_two_first ==
    [player1 |-> 0, player2 |-> 0, to_move |-> "Two", player1_piece |-> "X"]

\* BoardState::default(): both masks 0, Player::One to move, Piece::X
new == [player1 |-> 0, player2 |-> 0, to_move |-> "One", player1_piece |-> "X"]

pick_piece_new(piece) == [new EXCEPT !.player1_piece = piece]

\* move_is_legal looking at player one's mask only
move_is_legal_player1_only(s, mov) == BitAnd(mov, s.player1) = 0

move_is_legal(s, mov) ==
    LET filled_positions == BitOr(s.player1, s.player2)
    IN  BitAnd(mov, filled_positions) = 0

\* legal_moves without the filter
legal_moves_unfiltered(s) == ALL_MOVES

legal_moves(s) ==
    SelectSeq(ALL_MOVES, LAMBDA candidate : move_is_legal(s, candidate))

current_player(s) == s.to_move

last_player(s) == other_player(s.to_move)

get_position(s, player) == IF player = "One" THEN s.player1 ELSE s.player2

current_player_position(s) == get_position(s, current_player(s))

last_player_position(s) == get_position(s, last_player(s))

\* apply_move without the flip of the player to move
apply_move_no_flip(s, mov) ==
    IF s.to_move = "One"
    THEN [s EXCEPT !.player1 = BitOr(s.player1, mov)]
    ELSE [s EXCEPT !.player2 = BitOr(s.player2, mov)]

\* apply_move writing to the mask of the player who last moved
apply_move_other_mask(s, mov) ==
    LET moved == IF s.to_move = "One"
                 THEN [s EXCEPT !.player2 = BitOr(s.player2, mov)]
                 ELSE [s EXCEPT !.player1 = BitOr(s.player1, mov)]
    IN  [moved EXCEPT !.to_move = flip_player(s.to_move)]

\* apply_move choosing the mask by the piece of player one
apply_move_by_piece(s, mov) ==
    LET moved == IF (s.to_move = "One") = (s.player1_piece = "X")
                 THEN [s EXCEPT !.player1 = BitOr(s.player1, mov)]
                 ELSE [s EXCEPT !.player2 = BitOr(s.player2, mov)]
    IN  [moved EXCEPT !.to_move = flip_player(s.to_move)]

apply_move(s, mov) ==
    LET moved == IF current_player(s) = "One"
                 THEN [s EXCEPT !.player1 = BitOr(s.player1, mov)]
                 ELSE [s EXCEPT !.player2 = BitOr(s.player2, mov)]
    IN  [moved EXCEPT !.to_move = flip_player(s.to_move)]

\* next_state returning the clone without the move applied
next_state_no_apply(s, mov) == s

next_state(s, mov) == apply_move(s, mov)

\* The checked entry point the comment on apply_move refers to (lib.rs declares
\* it: "Returns true if the move was legal; false otherwise"): the state
\* after the call and the bool returned.
try_move(s, move_candidate) ==
    IF move_is_legal(s, move_candidate)
    THEN [state |-> apply_move(s, move_candidate), ret |-> TRUE]
    ELSE [state |-> s, ret |-> FALSE]

last_player_is_winner(s) ==
    \E i \in DOMAIN WINNING_POSITIONS :
        BitAnd(WINNING_POSITIONS[i], last_player_position(s)) = WINNING_POSITIONS[i]

current_player_is_winner(s) ==
    \E i \in DOMAIN WINNING_POSITIONS :
        BitAnd(WINNING_POSITIONS[i], current_player_position(s)) = WINNING_POSITIONS[i]

\* get_winner without the check of the player to move
get_winner_last_only(s) ==
    IF last_player_is_winner(s) THEN last_player(s) ELSE "None"

\* get_winner checking the player to move first
get_winner_current_first(s) ==
    IF current_player_is_winner(s) THEN current_player(s)
    ELSE IF last_player_is_winner(s) THEN last_player(s)
    ELSE "None"

\* Option<Player>: "None" or a player
get_winner(s) ==
    IF last_player_is_winner(s) THEN last_player(s)
    ELSE IF current_player_is_winner(s) THEN current_player(s)
    ELSE "None"

\* is_draw with the masks combined by & instead of |
is_draw_and(s) == BitAnd(BitAnd(s.player1, s.player2), DRAW) = DRAW

is_draw(s) == BitAnd(BitOr(s.player1, s.player2), DRAW) = DRAW

\* game_result asking is_draw before get_winner
game_result_draw_first(s) ==
    LET winner == get_winner(s)
    IN  IF is_draw(s) THEN Draw
        ELSE IF winner # "None" THEN Win(winner)
        ELSE Undetermined

game_result(s) ==
    LET winner == get_winner(s)
    IN  IF winner # "None" THEN Win(winner)
        ELSE IF is_draw(s) THEN Draw
        ELSE Undetermined

----------------------------------------------------------------------------
(* evaluate.rs: Probability = f32 and Distribution.  An f32 is modelled by  *)
(* the integer number of units of 2^-ProbBits it is worth; the values that *)
(* are a whole number of units and have at most 24 significant bits are     *)
(* f32 values, and a difference of two of them is a whole number of units,  *)
(* which f32 subtraction rounds to the nearest such value, ties to even.    *)

\* the resolution the probabilities are followed to
ProbBits == 28

\* f32::MANTISSA_DIGITS
MANTISSA_DIGITS == 24

\* 1.0
ONE == Pow2(ProbBits)

\* the spacing of the f32 values around n >= 0, from spacing u up
RECURSIVE UlpFrom(_, _)
UlpFrom(n, u) == IF n \div u < Pow2(MANTISSA_DIGITS) THEN u ELSE UlpFrom(n, 2 * u)

\* round to nearest, ties to even, of n >= 0
RoundNat(n) ==
    LET u == UlpFrom(n, 1)
        q == n \div u
        r == n % u
    IN  IF 2 * r > u \/ (2 * r = u /\ q % 2 = 1) THEN (q + 1) * u ELSE q * u

RoundF32(x) == IF x < 0 THEN 0 - RoundNat(0 - x) ELSE RoundNat(x)

\* the - operator on Probability
SubF32(a, b) == RoundF32(a - b)

\* the + operator on Probability
AddF32(a, b) == RoundF32(a + b)

\* Distribution { probs: [win, loss] }
win == [probs |-> <<ONE, 0>>]
loss == [probs |-> <<0, ONE>>]
draw == [probs |-> <<0, 0>>]

win_prob(d) == d.probs[1]

draw_prob(d) == SubF32(SubF32(ONE, d.probs[1]), d.probs[2])

loss_prob(d) == d.probs[2]

\* other_perspective returning a copy of the probabilities as they are
other_perspective_no_swap(d) == [probs |-> <<d.probs[1], d.probs[2]>>]

other_perspective(d) == [probs |-> <<d.probs[2], d.probs[1]>>]

flip_perspective(d) == [d EXCEPT !.probs = <<d.probs[2], d.probs[1]>>]

expected_result(d) == SubF32(win_prob(d), loss_prob(d))

\* the call record before any call
NoCall == [op |-> "none"]

----------------------------------------------------------------------------
(* The rules engine driven directly: any move legal_moves returns may be  *)
(* applied to the state it was returned for.                               *)

SeqToSet(seq) == {seq[i] : i \in DOMAIN seq}

Init ==
    /\ state \in {new} \cup {pick_piece_new(piece) : piece \in Pieces}
    /\ strategy = "None"
    /\ pc = "engine"
    /\ result = Undetermined
    /\ printed = 0
    /\ plies = <<>>
    /\ call = NoCall
    /\ twin = new
    /\ dist = draw

ApplyMove ==
    /\ pc = "engine"
    /\ \E mov \in SeqToSet(legal_moves(state)) :
          state' = apply_move(state, mov)
    /\ UNCHANGED <<strategy, pc, result, printed, plies, call, twin, dist>>

Next == ApplyMove

Spec == Init /\ [][Next]_vars

----------------------------------------------------------------------------
(* The queries asked of an arbitrary, directly constructed state.          *)

Masks == 0 .. DRAW

InitProbe ==
    /\ state \in [player1 : Masks, player2 : Masks, to_move : Players, player1_piece : {"X"}]
    /\ strategy = "None"
    /\ pc = "probe"
    /\ result = Undetermined
    /\ printed = 0
    /\ plies = <<>>
    /\ call = NoCall
    /\ twin = new
    /\ dist = draw

ProbeResult ==
    /\ pc = "probe"
    /\ result' = game_result(state)
    /\ pc' = "answered"
    /\ UNCHANGED <<state, strategy, printed, plies, call, twin, dist>>

NextProbe == ProbeResult

SpecProbe == InitProbe /\ [][NextProbe]_vars

----------------------------------------------------------------------------
(* A game played move by move from BoardState::new(), the moves recorded.  *)

InitGame ==
    /\ state = new
    /\ strategy = "None"
    /\ pc = "engine"
    /\ result = Undetermined
    /\ printed = 0
    /\ plies = <<>>
    /\ call = NoCall
    /\ twin = new
    /\ dist = draw

PlayPly ==
    /\ pc = "engine"
    /\ \E mov \in SeqToSet(legal_moves(state)) :
          /\ state' = apply_move(state, mov)
          /\ plies' = Append(plies, mov)
    /\ UNCHANGED <<strategy, pc, result, printed, call, twin, dist>>

NextGame == PlayPly

SpecGame == InitGame /\ [][NextGame]_vars

----------------------------------------------------------------------------
(* strategy.rs: what choose_move may return, as a set of Option<Move>      *)

\* Option<Move>::None, a value no Move wraps
NoMove == -1

\* The commented-out RandomStrategy (lib.rs RandomStrat): a uniformly chosen
\* member of legal_moves, None when there is none.
RandomStrategy_choose_move(s) ==
    IF legal_moves(s) = <<>> THEN {NoMove} ELSE SeqToSet(legal_moves(s))

\* The Strategy trait itself: an implementation returns a move of the game or
\* None, as it sees fit.
Strategy_choose_move(s) == {NoMove} \cup SeqToSet(legal_moves(s))

Strategies == {"RandomStrategy", "Strategy"}

choose_move(strat, s) ==
    IF strat = "RandomStrategy" THEN RandomStrategy_choose_move(s)
    ELSE Strategy_choose_move(s)

\* the panic of todo!(), in place of an Option<Move>
Abort == -2

\* the panic of todo!(), in place of a GameResult
Panic == [tag |-> "Panic", player |-> "None"]

\* game.rs GameState::states_and_moves: (next_state, move) for each legal move
states_and_moves(s) ==
    LET moves == legal_moves(s)
    IN  [i \in 1 .. Len(moves) |-> [state |-> next_state(s, moves[i]), mov |-> moves[i]]]

RECURSIVE TerminalStateStrategy_choose_move(_)
RECURSIVE ScanReplies(_, _)

\* the second loop of choose_move from its i-th pair on, and the todo!() after it
ScanReplies(future, i) ==
    IF i > Len(future) THEN Abort
    ELSE IF /\ ~is_determined(game_result(future[i].state))
            /\ TerminalStateStrategy_choose_move(future[i].state) = Abort
         THEN Abort
         ELSE ScanReplies(future, i + 1)

\* choose_move taking the last winning move instead of the first
TerminalStateStrategy_choose_move_last(s) ==
    IF game_result(s) # Undetermined THEN NoMove
    ELSE LET future == states_and_moves(s)
             wins == {i \in DOMAIN future :
                         game_result(future[i].state) = Win(current_player(s))}
         IN  IF wins # {}
             THEN future[CHOOSE i \in wins : \A j \in wins : j <= i].mov
             ELSE ScanReplies(future, 1)

\* choose_move returning the first legal move where the source has todo!()
TerminalStateStrategy_choose_move_fallback(s) ==
    IF game_result(s) # Undetermined THEN NoMove
    ELSE LET future == states_and_moves(s)
             wins == {i \in DOMAIN future :
                         game_result(future[i].state) = Win(current_player(s))}
         IN  IF wins # {}
             THEN future[CHOOSE i \in wins : \A j \in wins : i <= j].mov
             ELSE future[1].mov

TerminalStateStrategy_choose_move(s) ==
    IF game_result(s) # Undetermined THEN NoMove
    ELSE LET future == states_and_moves(s)
             wins == {i \in DOMAIN future :
                         game_result(future[i].state) = Win(current_player(s))}
         IN  IF wins # {}
             THEN future[CHOOSE i \in wins : \A j \in wins : i <= j].mov
             ELSE ScanReplies(future, 1)

\* evaluate.rs TerminalStateEvaluator::evaluate
TerminalStateEvaluator_evaluate(s, mov) ==
    LET result_of_next == game_result(next_state(s, mov))
    IN  IF is_determined(result_of_next) THEN result_of_next ELSE Panic

----------------------------------------------------------------------------
(* game.rs: GamePlayer::play, one action per iteration of its loop         *)

InitPlay ==
    /\ state = new
    /\ strategy \in Strategies
    /\ pc = "loop"
    /\ result = Undetermined
    /\ printed = 0
    /\ plies = <<>>
    /\ call = NoCall
    /\ twin = new
    /\ dist = draw

\* play applying the chosen move whatever game_result is
PlayMove_any_result ==
    /\ pc = "loop"
    /\ \E move_candidate \in choose_move(strategy, state) \ {NoMove} :
          state' = apply_move(state, move_candidate)
    /\ printed' = printed + 1
    /\ UNCHANGED <<strategy, pc, result, plies, call, twin, dist>>

\* GameResult::Undetermined, choose_move returned Some(move_candidate)
PlayMove ==
    /\ pc = "loop"
    /\ game_result(state) = Undetermined
    /\ \E move_candidate \in choose_move(strategy, state) \ {NoMove} :
          state' = apply_move(state, move_candidate)
    /\ printed' = printed + 1
    /\ UNCHANGED <<strategy, pc, result, plies, call, twin, dist>>

\* GameResult::Undetermined, choose_move returned None: the loop goes round
PlayNoMove ==
    /\ pc = "loop"
    /\ game_result(state) = Undetermined
    /\ NoMove \in choose_move(strategy, state)
    /\ printed < MaxPrinted
    /\ printed' = printed + 1
    /\ UNCHANGED <<state, strategy, pc, result, plies, call, twin, dist>>

\* play returning a win of the player to move instead of the matched result
PlayReturn_current_player ==
    /\ pc = "loop"
    /\ game_result(state) # Undetermined
    /\ result' = (IF game_result(state) = Draw THEN Draw ELSE Win(state.to_move))
    /\ pc' = "returned"
    /\ printed' = printed + 1
    /\ UNCHANGED <<state, strategy, plies, call, twin, dist>>

\* result @ GameResult::Win(player), result @ GameResult::Draw
PlayReturn ==
    /\ pc = "loop"
    /\ game_result(state) # Undetermined
    /\ result' = game_result(state)
    /\ pc' = "returned"
    /\ printed' = printed + 1
    /\ UNCHANGED <<state, strategy, plies, call, twin, dist>>

NextPlay == PlayMove \/ PlayNoMove \/ PlayReturn

SpecPlay == InitPlay /\ [][NextPlay]_vars

\* play runs on one thread with nothing to wait for but its own sleep: an
\* iteration that can be taken is taken.
SpecPlayFair == InitPlay /\ [][NextPlay]_vars /\ WF_vars(NextPlay)

----------------------------------------------------------------------------
(* The calls a user of the engine can make on a state reached from new().  *)
(* An answered call is a place to look at, not to go on from: the moves     *)
(* that carry the game on are those of ApplyMove.                           *)

Answer(op, mov, ret) == [op |-> op, before |-> state, mov |-> mov, ret |-> ret]

InitCalls ==
    /\ state = new
    /\ strategy = "None"
    /\ pc = "engine"
    /\ result = Undetermined
    /\ printed = 0
    /\ plies = <<>>
    /\ call = NoCall
    /\ twin = new
    /\ dist = draw

CallTryMove ==
    /\ pc = "engine"
    /\ \E move_candidate \in SeqToSet(ALL_MOVES) :
          /\ state' = try_move(state, move_candidate).state
          /\ call' = Answer("try_move", move_candidate, try_move(state, move_candidate).ret)
    /\ pc' = "answered"
    /\ UNCHANGED <<strategy, result, printed, plies, twin, dist>>

CallNextState ==
    /\ pc = "engine"
    /\ \E mov \in SeqToSet(legal_moves(state)) :
          call' = Answer("next_state", mov, next_state(state, mov))
    /\ pc' = "answered"
    /\ UNCHANGED <<state, strategy, result, printed, plies, twin, dist>>

CallLegalMoves ==
    /\ pc = "engine"
    /\ call' = Answer("legal_moves", NoMove, legal_moves(state))
    /\ pc' = "answered"
    /\ UNCHANGED <<state, strategy, result, printed, plies, twin, dist>>

CallChooseMove ==
    /\ pc = "engine"
    /\ call' = Answer("choose_move", NoMove, TerminalStateStrategy_choose_move(state))
    /\ pc' = "answered"
    /\ UNCHANGED <<state, strategy, result, printed, plies, twin, dist>>

CallEvaluate ==
    /\ pc = "engine"
    /\ \E mov \in SeqToSet(legal_moves(state)) :
          call' = Answer("evaluate", mov, TerminalStateEvaluator_evaluate(state, mov))
    /\ pc' = "answered"
    /\ UNCHANGED <<state, strategy, result, printed, plies, twin, dist>>

NextCalls ==
    \/ ApplyMove
    \/ CallTryMove
    \/ CallNextState
    \/ CallLegalMoves
    \/ CallChooseMove
    \/ CallEvaluate

SpecCalls == InitCalls /\ [][NextCalls]_vars

----------------------------------------------------------------------------
(* The board as the comment on Position draws it: cell k is row k \div 3,  *)
(* column k % 3, and bit k of a mask says whether the cell is taken.       *)

BoardCells == 0 .. 8

\* the bits set in mask, counted from bit k
RECURSIVE BitsFrom(_, _)
BitsFrom(mask, k) ==
    IF mask = 0 THEN {}
    ELSE (IF mask % 2 = 1 THEN {k} ELSE {}) \cup BitsFrom(mask \div 2, k + 1)

\* the bits set in a u16
Bits(mask) == BitsFrom(mask, 0)

\* the cells a mask occupies
Cells(mask) == Bits(mask) \cap BoardCells

\* the three rows, the three columns and the two diagonals
Lines ==
    {{3 * r + c : c \in 0 .. 2} : r \in 0 .. 2}
        \cup {{3 * r + c : r \in 0 .. 2} : c \in 0 .. 2}
        \cup {{0, 4, 8}, {2, 4, 6}}

HasLine(mask) == \E line \in Lines : line \subseteq Cells(mask)

Opponent(p) == IF p = "One" THEN "Two" ELSE "One"

MaskOf(p) == IF p = "One" THEN state.player1 ELSE state.player2

\* the move to cell k
MoveTo(k) == Pow2(k)

----------------------------------------------------------------------------
(* C1..C10 *)

\* C1: in every state reached from new() by moves legal where they were
\* applied, no cell is in both masks and neither mask has a bit above bit 8.
C1_MasksDisjointLow9 ==
    /\ Bits(state.player1) \cap Bits(state.player2) = {}
    /\ Bits(state.player1) \cup Bits(state.player2) \subseteq BoardCells

\* C1 witness: nine legal moves have filled the board, every cell in one mask.
C1_FullBoardReached ==
    /\ Bits(state.player1) \cup Bits(state.player2) = BoardCells
    /\ Cardinality(Bits(state.player1)) = 5
    /\ Cardinality(Bits(state.player2)) = 4

\* C2: a reachable state whose game_result is Win or Draw has no legal move.
C2_TerminalHasNoLegalMoves ==
    game_result(state) # Undetermined => legal_moves(state) = <<>>

ExactLineAgainstFew(p) ==
    /\ Cells(MaskOf(p)) \in Lines
    /\ Cardinality(Cells(MaskOf(Opponent(p)))) <= 3
    /\ Cells(MaskOf(Opponent(p))) \cap Cells(MaskOf(p)) = {}

\* C4 (as stated): a player holding exactly one line against 0 to 3 disjoint
\* cells of the other is reported the winner, whoever is to move.
C4_ExactLineWins ==
    pc = "answered" =>
        \A p \in Players : ExactLineAgainstFew(p) => result = Win(p)

\* C4 (amended): the same, unless the other player's three cells are a line
\* too.
C4_ExactLineWinsUnlessBoth ==
    pc = "answered" =>
        \A p \in Players :
            (ExactLineAgainstFew(p) /\ Cells(MaskOf(Opponent(p))) \notin Lines)
                => result = Win(p)

\* C4 witness: the player to move holds exactly a line against three
\* scattered cells of the last mover, and is reported the winner.
C4_LineOfPlayerToMove ==
    /\ pc = "answered"
    /\ ExactLineAgainstFew(state.to_move)
    /\ Cardinality(Cells(MaskOf(Opponent(state.to_move)))) = 3
    /\ ~HasLine(MaskOf(Opponent(state.to_move)))
    /\ result = Win(state.to_move)

\* the result the four cases give, in their order
ExpectedResult ==
    IF HasLine(MaskOf(Opponent(state.to_move))) THEN Win(Opponent(state.to_move))
    ELSE IF HasLine(MaskOf(state.to_move)) THEN Win(state.to_move)
    ELSE IF Cells(state.player1) \cup Cells(state.player2) = BoardCells THEN Draw
    ELSE Undetermined

\* C5: for any two 9-bit masks and either player to move, game_result is
\* Win(last mover) if the last mover holds a line, else Win(player to move) if
\* that player holds one, else Draw if every cell is taken, else Undetermined.
C5_ResultDerivation == pc = "answered" => result = ExpectedResult

\* C5 witness: only the player to move holds a line, and is reported winner.
C5_FallbackDecides ==
    /\ pc = "answered"
    /\ ~HasLine(MaskOf(Opponent(state.to_move)))
    /\ HasLine(MaskOf(state.to_move))
    /\ result = Win(state.to_move)

\* C6: game_result is Draw exactly for the states in which every cell is
\* taken and neither player holds a line.
C6_DrawExactlyWhenFullAndNoLine ==
    pc = "answered" =>
        (result = Draw
            <=> /\ Cells(state.player1) \cup Cells(state.player2) = BoardCells
                /\ ~HasLine(state.player1)
                /\ ~HasLine(state.player2))

\* C6 witness: a full board shared five cells to four, reported Draw.
C6_DrawReported ==
    /\ pc = "answered"
    /\ result = Draw
    /\ Cells(state.player1) \cap Cells(state.player2) = {}
    /\ Cardinality(Cells(state.player1)) = 5

WinScenario == <<MoveTo(0), MoveTo(3), MoveTo(1), MoveTo(4), MoveTo(2)>>

\* C7: along cells 0, 3, 1, 4, 2 from new() the players alternate from
\* Player One, the result is Undetermined after plies 1 to 4 and
\* Win(Player One) after ply 5.
C7_WinScenario ==
    \A n \in 1 .. Len(WinScenario) :
        plies = SubSeq(WinScenario, 1, n) =>
            /\ state.to_move = (IF n % 2 = 1 THEN "Two" ELSE "One")
            /\ game_result(state)
                 = (IF n < Len(WinScenario) THEN Undetermined ELSE Win("One"))

\* C7 witness: the five plies have been applied.
C7_WinScenarioPlayed == plies = WinScenario

DrawScenario ==
    <<MoveTo(0), MoveTo(1), MoveTo(3), MoveTo(2), MoveTo(4),
      MoveTo(6), MoveTo(5), MoveTo(7), MoveTo(8)>>

\* C8 (as stated): along cells 0,1,3,2,4,6,5,7,8 from new() nobody ever
\* completes a line, and the full board is a Draw.
C8_DrawScenario ==
    \A n \in 1 .. Len(DrawScenario) :
        plies = SubSeq(DrawScenario, 1, n) =>
            /\ get_winner(state) = "None"
            /\ n = Len(DrawScenario) => game_result(state) = Draw

\* C8 (amended): along cells 0,1,3,2,4,6,5,7,8 from new() the result is
\* Undetermined after plies 1 to 6; the seventh ply (cell 5) completes Player
\* One's middle row, and the result is Win(Player One) from then on, the full
\* board included.
C8_DrawScenarioIsAWin ==
    \A n \in 1 .. Len(DrawScenario) :
        plies = SubSeq(DrawScenario, 1, n) =>
            game_result(state) = (IF n < 7 THEN Undetermined ELSE Win("One"))

\* C8 witness: the nine plies have been applied.
C8_DrawScenarioPlayed == plies = DrawScenario

\* C9: play changes the state only while game_result is Undetermined; on a
\* Win or Draw it returns that result at once and leaves the state alone; what
\* it returned is game_result of the state it stopped in.
C9_PlayReturnsResultOfFinalState ==
    /\ [][/\ state' # state => (pc = "loop" /\ game_result(state) = Undetermined)
          /\ (pc = "loop" /\ game_result(state) # Undetermined)
                => (pc' = "returned" /\ result' = game_result(state) /\ state' = state)
          /\ pc = "returned" => (pc' = "returned" /\ state' = state /\ result' = result)
         ]_vars
    /\ [](pc = "returned" => (result = game_result(state) /\ result # Undetermined))

\* C9 witness: play has returned Win(Player Two).
C9_PlayReturnedWin == pc = "returned" /\ result = Win("Two")

\* C10: an iteration of play that finds the game Undetermined and gets no
\* move from the strategy leaves the loop.
C10_NoMoveLeavesLoop ==
    [][(pc = "loop" /\ game_result(state) = Undetermined /\ state' = state)
          => pc' # "loop"]_vars

----------------------------------------------------------------------------
(* A game in which each ply is recorded with the state it was applied to and *)
(* the moves played so far                                                    *)

Played == IF call.op = "apply_move" THEN call.played ELSE {}

InitPlies ==
    /\ state = new
    /\ strategy = "None"
    /\ pc = "engine"
    /\ result = Undetermined
    /\ printed = 0
    /\ plies = <<>>
    /\ call = NoCall
    /\ twin = new
    /\ dist = draw

RecordedPly ==
    /\ pc = "engine"
    /\ \E mov \in SeqToSet(legal_moves(state)) :
          /\ state' = apply_move(state, mov)
          /\ call' = [op |-> "apply_move", before |-> state, mov |-> mov,
                      played |-> Played \cup {mov}]
    /\ UNCHANGED <<strategy, pc, result, printed, plies, twin, dist>>

NextPlies == RecordedPly

SpecPlies == InitPlies /\ [][NextPlies]_vars

----------------------------------------------------------------------------
(* Two games, one built by pick_piece_new(Piece::X) and one by               *)
(* pick_piece_new(Piece::O), given the same moves                            *)

InitTwin ==
    /\ state = pick_piece_new("X")
    /\ twin = pick_piece_new("O")
    /\ strategy = "None"
    /\ pc = "engine"
    /\ result = Undetermined
    /\ printed = 0
    /\ plies = <<>>
    /\ call = NoCall
    /\ dist = draw

TwinPly ==
    /\ pc = "engine"
    /\ \E mov \in SeqToSet(legal_moves(state)) :
          /\ state' = apply_move(state, mov)
          /\ twin' = apply_move(twin, mov)
    /\ UNCHANGED <<strategy, pc, result, printed, plies, call, dist>>

NextTwin == TwinPly

SpecTwin == InitTwin /\ [][NextTwin]_vars

----------------------------------------------------------------------------
(* evaluate.rs: a Distribution, flipped in place or asked for its other     *)
(* perspective                                                               *)

\* f32 probabilities: 0, the powers of two down to one unit, and three times
\* a power of two
ProbGrid ==
    {0} \cup {Pow2(k) : k \in 0 .. ProbBits}
        \cup {3 * Pow2(k) : k \in 0 .. ProbBits - 2}

\* the Distributions whose win and loss probabilities leave a draw
\* probability that is not negative
Distributions ==
    {[probs |-> <<pair[1], pair[2]>>] :
        pair \in {wl \in ProbGrid \X ProbGrid : wl[1] + wl[2] <= ONE}}

InitDist ==
    /\ dist \in Distributions
    /\ state = new
    /\ strategy = "None"
    /\ pc = "engine"
    /\ result = Undetermined
    /\ printed = 0
    /\ plies = <<>>
    /\ call = NoCall
    /\ twin = new

FlipPerspective ==
    /\ pc = "engine"
    /\ dist' = flip_perspective(dist)
    /\ UNCHANGED <<state, strategy, pc, result, printed, plies, call, twin>>

CallOtherPerspective ==
    /\ pc = "engine"
    /\ call' = [op |-> "other_perspective", before |-> dist,
                ret |-> other_perspective(dist)]
    /\ pc' = "answered"
    /\ UNCHANGED <<state, strategy, result, printed, plies, twin, dist>>

NextDist == FlipPerspective \/ CallOtherPerspective

SpecDist == InitDist /\ [][NextDist]_vars

----------------------------------------------------------------------------
(* C11..C20 *)

\* the cell a single-bit move goes to
CellOf(mov) == CHOOSE k \in BoardCells : MoveTo(k) = mov

\* the cells taken in a BoardState
Taken(b) == Cells(b.player1) \cup Cells(b.player2)

C12_NextStateLeavesOriginal ==
    call.op = "next_state" =>
        /\ call.ret = apply_move(call.before, call.mov)
        /\ call.ret # call.before
        /\ state = call.before

\* C12 witness: next_state was asked on a board where both players hold cells.
C12_NextStateAnswered ==
    /\ call.op = "next_state"
    /\ call.before.player1 # 0
    /\ call.before.player2 # 0
    /\ Taken(call.ret) = Taken(state) \cup {CellOf(call.mov)}

\* the moves to the cells of free from cell k on, in ascending order
RECURSIVE AscendingMoves(_, _)
AscendingMoves(free, k) ==
    IF k \notin BoardCells THEN <<>>
    ELSE (IF k \in free THEN <<MoveTo(k)>> ELSE <<>>) \o AscendingMoves(free, k + 1)

\* C14: legal_moves returns the moves to the cells in neither mask, each
\* once, in ascending cell order; on the initial state all nine.
C14_LegalMovesExact ==
    call.op = "legal_moves" =>
        /\ call.ret = AscendingMoves(BoardCells \ Taken(call.before), 0)
        /\ call.before = new => call.ret = [k \in 1 .. 9 |-> MoveTo(k - 1)]

\* C14 witness: legal_moves answered with the four free cells 1, 4, 7, 8.
C14_FourMovesLeft ==
    /\ call.op = "legal_moves"
    /\ call.ret = <<MoveTo(1), MoveTo(4), MoveTo(7), MoveTo(8)>>

\* the free cells of b that complete a line for the player to move
WinningCells(b) ==
    {k \in BoardCells \ Taken(b) :
        \E line \in Lines :
            line \subseteq Cells(IF b.to_move = "One" THEN b.player1 ELSE b.player2) \cup {k}}

Lowest(cells) == CHOOSE k \in cells : \A j \in cells : k <= j

\* C17: choose_move returns None on a state that is not Undetermined, and on
\* an Undetermined state with an immediately winning move it returns the
\* first such move in legal_moves order.
C17_TerminalSeeking ==
    call.op = "choose_move" =>
        /\ game_result(call.before) # Undetermined => call.ret = NoMove
        /\ (game_result(call.before) = Undetermined /\ WinningCells(call.before) # {})
              => call.ret = MoveTo(Lowest(WinningCells(call.before)))

\* C17 witness: with two winning cells to choose from, the lower was returned.
C17_FirstOfTwoWins ==
    /\ call.op = "choose_move"
    /\ game_result(call.before) = Undetermined
    /\ Cardinality(WinningCells(call.before)) = 2
    /\ call.ret = MoveTo(Lowest(WinningCells(call.before)))

\* C18: choose_move on an Undetermined state without an immediately winning
\* move panics; every move it returns wins at once; evaluate panics when the
\* move does not end the game.
C18_UnimplementedPanics ==
    /\ call.op = "choose_move" =>
          /\ (game_result(call.before) = Undetermined /\ WinningCells(call.before) = {})
                => call.ret = Abort
          /\ call.ret \notin {NoMove, Abort}
                => /\ CellOf(call.ret) \in WinningCells(call.before)
                   /\ game_result(apply_move(call.before, call.ret))
                        = Win(call.before.to_move)
    /\ call.op = "evaluate" =>
          (call.ret = Panic <=> game_result(apply_move(call.before, call.mov)) = Undetermined)

\* C18 witness: choose_move panicked four plies into a game.
C18_PanickedMidGame ==
    /\ call.op = "choose_move"
    /\ call.ret = Abort
    /\ Cardinality(Taken(call.before)) = 4

\* the cells of the plies at the positions idx of the history
PliesAt(idx) == {CellOf(plies[i]) : i \in idx \cap DOMAIN plies}

\* C13: each ply sets exactly its one bit in the mask of the player who was
\* to move, leaves the other mask and player1_piece alone and flips the
\* turn: Player One moves at the odd plies, Player Two at the even ones.
C13_PliesAlternate ==
    LET odd == {i \in DOMAIN plies : i % 2 = 1}
        even == {i \in DOMAIN plies : i % 2 = 0}
    IN  /\ state.to_move = (IF Len(plies) % 2 = 0 THEN "One" ELSE "Two")
        /\ state.player1 < Pow2(9) /\ Cells(state.player1) = PliesAt(odd)
        /\ state.player2 < Pow2(9) /\ Cells(state.player2) = PliesAt(even)
        /\ Cardinality(Cells(state.player1)) = Cardinality(odd)
        /\ Cardinality(Cells(state.player2)) = Cardinality(even)
        /\ state.player1_piece = "X"

\* C13 witness: after five plies Player One holds three cells, Player Two
\* two, and Player Two is to move.
C13_FivePliesPlayed ==
    /\ Len(plies) = 5
    /\ Cardinality(Cells(state.player1)) = 3
    /\ Cardinality(Cells(state.player2)) = 2
    /\ state.to_move = "Two"

\* C15: every ply takes exactly the move just played out of legal_moves,
\* keeping the rest in order, and no move played earlier in the game is
\* legal in any later state.
C15_LegalityMonotone ==
    call.op = "apply_move" =>
        LET before == legal_moves(call.before)
            after == legal_moves(state)
        IN  /\ call.mov \in SeqToSet(before)
            /\ after = SelectSeq(before, LAMBDA m : m # call.mov)
            /\ Len(after) = Len(before) - 1
            /\ call.played \cap SeqToSet(after) = {}

\* C15 witness: the ninth ply of a game went to cell 0, all nine moves have
\* been played and none is legal.
C15_AllCellsUsed ==
    /\ call.op = "apply_move"
    /\ call.mov = MoveTo(0)
    /\ Cardinality(call.played) = 9
    /\ legal_moves(state) = <<>>

\* C16: the game begun with X and the game begun with O, given
\* the same moves, have the same masks, player to move, legal_moves and
\* game_result at every step, and each keeps the piece it was built with.
C16_PieceIsCosmetic ==
    /\ state.player1 = twin.player1
    /\ state.player2 = twin.player2
    /\ state.to_move = twin.to_move
    /\ legal_moves(state) = legal_moves(twin)
    /\ game_result(state) = game_result(twin)
    /\ state.player1_piece = "X"
    /\ twin.player1_piece = "O"

\* C16 witness: both games were won by Player Two.
C16_BothWonByTwo ==
    /\ game_result(state) = Win("Two")
    /\ game_result(twin) = Win("Two")
    /\ twin.player1_piece = "O"
    /\ twin.player2 # 0

Abs(x) == IF x < 0 THEN 0 - x ELSE x

\* what C19 says of other_perspective but for the draw probability: win and
\* loss swapped, twice is the original, expected_result negated, the
\* receiver as it was, and win + draw + loss = 1 for win(), loss(), draw()
FlipSwaps ==
    /\ call.op = "other_perspective" =>
          /\ win_prob(call.ret) = loss_prob(call.before)
          /\ loss_prob(call.ret) = win_prob(call.before)
          /\ other_perspective(call.ret) = call.before
          /\ expected_result(call.ret) = 0 - expected_result(call.before)
          /\ dist = call.before
    /\ \A d \in {win, loss, draw} :
          AddF32(AddF32(win_prob(d), draw_prob(d)), loss_prob(d)) = ONE

C20_UndeterminedHasMove ==
    game_result(state) = Undetermined =>
        /\ legal_moves(state) # <<>>
        /\ Taken(state) # BoardCells
        /\ NoMove \notin RandomStrategy_choose_move(state)

\* C20 witness: an Undetermined state with a single empty cell.
C20_OneMoveLeft ==
    /\ game_result(state) = Undetermined
    /\ Len(legal_moves(state)) = 1

----------------------------------------------------------------------------
(* C21..C25 *)

\* the moves play has applied: each fills one cell of the empty board
MovesApplied == Cardinality(Taken(state))

\* C21: play from new() with the uniform-random strategy eventually returns
\* Win(p) or Draw, whatever the random choices, having applied at least 5 and
\* at most 9 moves.
C21_RandomPlayReturns ==
    (strategy = "RandomStrategy")
        ~> /\ pc = "returned"
           /\ result \in {Win(p) : p \in Players} \cup {Draw}
           /\ MovesApplied \in 5 .. 9
           /\ printed = MovesApplied + 1

\* C21 witness: play with the random strategy returned after five moves.
C21_ReturnedAfterFive ==
    /\ strategy = "RandomStrategy"
    /\ pc = "returned"
    /\ MovesApplied = 5

\* C22: in driver-style play the player to move never holds a completed
\* line, so at most one player holds one, that player moved last, and
\* get_winner is never decided by current_player_is_winner.
C22_MoverHoldsNoLine ==
    /\ ~HasLine(MaskOf(state.to_move))
    /\ ~(HasLine(state.player1) /\ HasLine(state.player2))
    /\ \A p \in Players : HasLine(MaskOf(p)) => p = Opponent(state.to_move)
    /\ ~(current_player_is_winner(state) /\ ~last_player_is_winner(state))
    /\ get_winner(state) # "None" => get_winner(state) = last_player(state)

\* C22 witness: play is in its loop on a state in which the last mover,
\* Player Two, holds a line.
C22_LastMoverHoldsLine ==
    /\ pc = "loop"
    /\ state.to_move = "One"
    /\ HasLine(state.player2)
    /\ get_winner(state) = "Two"

\* C23: once game_result is Win(p), it is still Win(p) after any move that
\* legal_moves returns, and a Draw state has no legal move.
C23_TerminalAbsorbing ==
    /\ call.op = "apply_move" =>
          \A p \in Players :
              game_result(call.before) = Win(p) => game_result(state) = Win(p)
    /\ game_result(state) = Draw => legal_moves(state) = <<>>

\* C24: player one holds as many cells as player two or one more; Player
\* One is to move exactly when the counts are equal, Player Two exactly when
\* player one has one more.
C24_TurnParity ==
    LET n1 == Cardinality(Cells(state.player1))
        n2 == Cardinality(Cells(state.player2))
    IN  /\ n1 - n2 \in {0, 1}
        /\ state.to_move = "One" <=> n1 = n2
        /\ state.to_move = "Two" <=> n1 = n2 + 1

\* C24 witness: player one holds four cells, player two three, and Player
\* Two is to move.
C24_FourAgainstThree ==
    /\ Cardinality(Cells(state.player1)) = 4
    /\ Cardinality(Cells(state.player2)) = 3
    /\ state.to_move = "Two"

\* C25: is_draw is true exactly when game_result is Draw; on a full board
\* with a completed line it is false.
C25_IsDrawIffResultDraw ==
    /\ is_draw(state) <=> game_result(state) = Draw
    /\ (Taken(state) = BoardCells /\ (HasLine(state.player1) \/ HasLine(state.player2)))
          => ~is_draw(state)

====
